---- MODULE Spec2Model ----
(***************************************************************************)
(* The change-detection and version-reconciliation run of                  *)
(* src/python_tools/etl.py (main), as a state machine.                     *)
(*                                                                         *)
(* One run is one invocation of main().  Several invocations (processes)   *)
(* may be in flight at once; they share only the store (versions and       *)
(* crawl log) and the remote page.  The crawler, the parser and the store  *)
(* are modules of the repository that are not part of the source tree      *)
(* given here (crawler.crawler, ai.parser, db.operations); their results   *)
(* are modelled from the contracts of spec.md section 6, and every call    *)
(* to them may also raise, which main() catches at lines 67-68.            *)
(***************************************************************************)
EXTENDS Naturals, Sequences, FiniteSets

\* ------------------------------------------------------------------ bounds

\* Number of invocations of main() the model follows.
MaxRuns == 2

\* Number of times the remote page changes its content.
MaxChanges == 1

Runs == 1..MaxRuns

\* ------------------------------------------------------------------ values

\* Python's None.
None == "None"

\* The card main() seeds and processes (line 20): every run gets the same id.
CardId == "J_CARD"

\* The hard-coded version label of line 59.
VersionName == "2026-Q1"

\* Normalised page contents the remote may serve.
Contents == {"C0", "C1", "C2"}

\* The content fingerprint: a deterministic digest, not injective (C0 and C2
\* collide), never equal to the content itself.
Fingerprint(c) ==
    CASE c = "C0" -> "F0"
      [] c = "C1" -> "F1"
      [] c = "C2" -> "F0"

\* Diagnostics a failed fetch reports.
FetchDetails == {"timeout", "http 500"}

\* Diagnostics a failed extraction reports.
ParseDetails == {"malformed response", "timeout"}

\* Structured reward data the extractor may return for a content.
Payloads == {"P1", "P2"}

VARIABLES
    remote,        \* the content the remote page serves now
    changes,       \* how many times the remote content has changed
    versions,      \* store: the card_versions rows, in creation order
    outcomes,      \* store: the crawl log rows, in creation order
    pc,            \* per run: where main() stands
    card_id,       \* per run: local card_id (line 20)
    last_hash,     \* per run: local last_hash (line 28)
    crawl_result,  \* per run: local crawl_result (line 31)
    rewards_json,  \* per run: local rewards_json (line 48)
    versionBy,     \* history: the run that created each row of versions
    outcomeBy,     \* history: the run that appended each row of outcomes
    hist           \* history: per run, what it observed and which call raised

vars == <<remote, changes, versions, outcomes, pc, card_id, last_hash,
          crawl_result, rewards_json, versionBy, outcomeBy, hist>>

store == <<versions, outcomes, versionBy, outcomeBy>>
locals == <<card_id, last_hash, crawl_result, rewards_json>>
world == <<remote, changes>>

\* ------------------------------------------------------- the collaborators

\* db.get_latest_card_version(card_id): the rows of the most recent version
\* of the card, none or one.
GetLatestCardVersion(vs, cid) ==
    LET idx == {i \in 1..Len(vs) : vs[i].card_id = cid}
    IN  IF idx = {} THEN <<>>
        ELSE <<vs[CHOOSE i \in idx : \A j \in idx : j <= i]>>

\* The fingerprint of the card's latest version, None when it has none.
LatestFingerprint(vs, cid) ==
    LET rows == GetLatestCardVersion(vs, cid)
    IN  IF rows = <<>> THEN None ELSE rows[1].source_content_hash

\* crawler.process_card_url(card_id, url, last_hash): the results the fetcher
\* may return when the remote serves content c.  It compares fingerprints
\* itself and reports NO_CHANGE on equality, else the content and its
\* fingerprint; or it reports a failure with a detail.
ChangedResult(c) ==
    [status |-> "CHANGED", content |-> c, hash |-> Fingerprint(c), error |-> None]

UnchangedResult ==
    [status |-> "NO_CHANGE", content |-> None, hash |-> None, error |-> None]

FailedResult(d) ==
    [status |-> "FAILED", content |-> None, hash |-> None, error |-> d]

ProcessCardUrl(c, lastFingerprint) ==
    {IF Fingerprint(c) = lastFingerprint THEN UnchangedResult ELSE ChangedResult(c)}
    \cup {FailedResult(d) : d \in FetchDetails}

\* parser.parse_markdown_to_json(content): a payload, or a mapping with the
\* key "error" holding the detail.
ParseMarkdownToJson(c) ==
    {[rules |-> p] : p \in Payloads} \cup {[error |-> d] : d \in ParseDetails}

\* db.save_card_version rejects (CommitConflict) a version whose fingerprint
\* the card already has.
CommitConflict(vs, cid, fp) ==
    \E i \in 1..Len(vs) : vs[i].card_id = cid /\ vs[i].source_content_hash = fp

\* ------------------------------------------------------------ main(), data

\* Line 28 with the stored hash dropped: every run looks like a first run.
LastHashNone(last_version) == None

\* Line 28 reading the wrong column of the row.
LastHashVersionName(last_version) ==
    IF last_version # <<>> THEN last_version[1].version_name ELSE None

\* Line 28: last_version['source_content_hash'] if last_version else None.
LastHash(last_version) ==
    IF last_version # <<>> THEN last_version[1].source_content_hash ELSE None

\* Line 33 testing for "anything but CHANGED".
IsNoChangeLoose(res) == res.status # "CHANGED"

\* Line 33.
IsNoChange(res) == res.status = "NO_CHANGE"

\* Line 38 never taken: the FAILED branch is missing.
IsFailedNever(res) == FALSE

\* Line 38.
IsFailed(res) == res.status = "FAILED"

\* Line 50: "error" in rewards_json.
HasError(json) == "error" \in DOMAIN json

\* The row db.log_crawl_result(card_id, status, error=None) appends.
LogRow(cid, status, error) ==
    [card_id |-> cid, status |-> status, error |-> error]

\* Line 35 with the status of line 64.
NoChangeRowAsSuccess(cid) == LogRow(cid, "SUCCESS", None)

\* Line 35.
NoChangeRow(cid) == LogRow(cid, "NO_CHANGE", None)

\* Line 40 without the error argument.
FailedRowNoDetail(cid, res) == LogRow(cid, "FAILED", None)

\* Line 40.
FailedRow(cid, res) == LogRow(cid, "FAILED", res.error)

\* Line 52 without the error argument.
AiFailedRowNoDetail(cid, json) == LogRow(cid, "AI_FAILED", None)

\* Line 52.
AiFailedRow(cid, json) == LogRow(cid, "AI_FAILED", json.error)

\* Line 64.
SuccessRow(cid) == LogRow(cid, "SUCCESS", None)

\* Lines 60 and 62 with hash_val and raw_content exchanged.
VersionRowSwapped(cid, res, json) ==
    [card_id |-> cid, version_name |-> VersionName,
     source_content_hash |-> res.content, rewards |-> json,
     raw_content |-> res.hash]

\* Lines 45-46 and 57-63: the row save_card_version writes.
VersionRow(cid, res, json) ==
    [card_id |-> cid, version_name |-> VersionName,
     source_content_hash |-> res.hash, rewards |-> json,
     raw_content |-> res.content]

\* ------------------------------------------------------------------- Init

NoResult == [status |-> None, content |-> None, hash |-> None, error |-> None]
NoJson == [unset |-> TRUE]

NoHist ==
    [latestAtRead |-> None,  \* the store's latest fingerprint when line 27 ran
     served |-> None,        \* the content the remote held when the fetch returned
     before |-> <<>>,        \* solo runs: the version rows when the run began
     after |-> <<>>,         \* solo runs: the version rows when the run ended
     given |-> None,         \* the content handed to the parser
     nFetch |-> 0,           \* calls of process_card_url
     nParse |-> 0,           \* calls of parse_markdown_to_json
     raised |-> None,        \* the call whose exception lines 67-68 caught
     propagated |-> None,    \* the exception that left main() to its caller
     hadVersion |-> FALSE,   \* the card had a version when line 27 ran
     solo |-> FALSE]         \* no other run was in flight during this one

Init ==
    /\ remote = "C0"
    /\ changes = 0
    /\ versions = <<>>
    /\ outcomes = <<>>
    /\ versionBy = <<>>
    /\ outcomeBy = <<>>
    /\ pc = [r \in Runs |-> "idle"]
    /\ card_id = [r \in Runs |-> None]
    /\ last_hash = [r \in Runs |-> None]
    /\ crawl_result = [r \in Runs |-> NoResult]
    /\ rewards_json = [r \in Runs |-> NoJson]
    /\ hist = [r \in Runs |-> NoHist]

\* ---------------------------------------------------------------- helpers

InFlight(r) == pc[r] \notin {"idle", "done"}

\* main() returns (lines 36, 41, 53, 65).
Return(r) ==
    /\ pc' = [pc EXCEPT ![r] = "done"]
    /\ hist' = [hist EXCEPT ![r].after = IF hist[r].solo THEN versions ELSE <<>>]

\* Lines 67-68: the exception of `call` is logged and main() returns.
Except(r, call) ==
    /\ pc' = [pc EXCEPT ![r] = "done"]
    /\ hist' = [hist EXCEPT ![r].raised = call,
                            ![r].after = IF hist[r].solo THEN versions ELSE <<>>]

\* db.log_crawl_result: the row is appended.
AppendOutcome(r, row) ==
    /\ outcomes' = Append(outcomes, row)
    /\ outcomeBy' = Append(outcomeBy, r)

\* ---------------------------------------------------------------- actions

\* Lines 12-24: main() is invoked and seeds the bank and the card.
Start(r) ==
    /\ pc[r] = "idle"
    /\ \A q \in Runs : q < r => pc[q] # "idle"
    /\ \/ /\ pc' = [pc EXCEPT ![r] = "read"]
          /\ card_id' = [card_id EXCEPT ![r] = CardId]
          /\ hist' = [q \in Runs |->
                IF q = r
                THEN [hist[q] EXCEPT !.solo = \A o \in Runs : ~InFlight(o),
                                     !.before = IF \A o \in Runs : ~InFlight(o)
                                                THEN versions ELSE <<>>]
                ELSE IF InFlight(q) THEN [hist[q] EXCEPT !.solo = FALSE]
                ELSE hist[q]]
       \/ /\ Except(r, "seed")
          /\ UNCHANGED card_id
    /\ UNCHANGED <<store, world, last_hash, crawl_result, rewards_json>>

\* Lines 26-28: read the latest version and take its hash.
ReadLatest(r) ==
    /\ pc[r] = "read"
    /\ \/ /\ last_hash' = [last_hash EXCEPT ![r] =
                LastHash(GetLatestCardVersion(versions, card_id[r]))]
          /\ hist' = [hist EXCEPT
                ![r].latestAtRead = LatestFingerprint(versions, card_id[r]),
                ![r].hadVersion =
                    \E i \in 1..Len(versions) : versions[i].card_id = card_id[r]]
          /\ pc' = [pc EXCEPT ![r] = "fetch"]
       \/ /\ Except(r, "get_latest_card_version")
          /\ UNCHANGED last_hash
    /\ UNCHANGED <<store, world, card_id, crawl_result, rewards_json>>

\* Line 31: process_card_url is called; the run suspends on the await.
FetchCall(r) ==
    /\ pc[r] = "fetch"
    /\ pc' = [pc EXCEPT ![r] = "fetching"]
    /\ hist' = [hist EXCEPT ![r].nFetch = @ + 1]
    /\ UNCHANGED <<store, world, locals>>

\* Line 31: the await completes with a result, or raises.
FetchReturn(r) ==
    /\ pc[r] = "fetching"
    /\ \/ \E res \in ProcessCardUrl(remote, last_hash[r]) :
            /\ crawl_result' = [crawl_result EXCEPT ![r] = res]
            /\ hist' = [hist EXCEPT ![r].served = remote]
            /\ pc' = [pc EXCEPT ![r] = "classify"]
       \/ /\ Except(r, "process_card_url")
          /\ UNCHANGED crawl_result
    /\ UNCHANGED <<store, world, card_id, last_hash, rewards_json>>

\* The suspension points if the store calls of lines 57 and 64 were awaited
\* too: the task could then be cancelled between the two writes.
SuspensionPointsWithStore == {"fetching", "saved"}

\* The places where main() is suspended and its task can be cancelled: the
\* one await, at line 31.  Every other call of main() is synchronous.
SuspensionPoints == {"fetching"}

\* The task is cancelled while suspended: CancelledError is raised at the
\* await; it is no Exception, so lines 67-68 do not catch it and it leaves
\* main().  Nothing is written.
Cancel(r) ==
    /\ pc[r] \in SuspensionPoints
    /\ pc' = [pc EXCEPT ![r] = "done"]
    /\ hist' = [hist EXCEPT ![r].propagated = "CancelledError",
                            ![r].after = IF hist[r].solo THEN versions ELSE <<>>]
    /\ UNCHANGED <<store, world, locals>>

\* Lines 33-35 without the return of line 36: the row is logged and the run
\* goes on to the parser call of line 48.
LogNoChangeFallsThrough(r) ==
    /\ pc[r] = "classify"
    /\ IsNoChange(crawl_result[r])
    /\ AppendOutcome(r, NoChangeRow(card_id[r]))
    /\ pc' = [pc EXCEPT ![r] = "parsing"]
    /\ hist' = [hist EXCEPT ![r].nParse = @ + 1,
                            ![r].given = crawl_result[r].content]
    /\ UNCHANGED <<versions, versionBy, world, locals>>

\* Lines 33-36.
LogNoChange(r) ==
    /\ pc[r] = "classify"
    /\ IsNoChange(crawl_result[r])
    /\ \/ /\ AppendOutcome(r, NoChangeRow(card_id[r]))
          /\ Return(r)
       \/ /\ Except(r, "log_crawl_result")
          /\ UNCHANGED <<outcomes, outcomeBy>>
    /\ UNCHANGED <<versions, versionBy, world, locals>>

\* Lines 38-41 replaced by a retry: a FAILED result sends the run back to the
\* call of line 31.
LogFailedRetries(r) ==
    /\ pc[r] = "classify"
    /\ ~IsNoChange(crawl_result[r])
    /\ IsFailed(crawl_result[r])
    /\ pc' = [pc EXCEPT ![r] = "fetch"]
    /\ UNCHANGED <<store, world, locals, hist>>

\* Lines 38-41.
LogFailed(r) ==
    /\ pc[r] = "classify"
    /\ ~IsNoChange(crawl_result[r])
    /\ IsFailed(crawl_result[r])
    /\ \/ /\ AppendOutcome(r, FailedRow(card_id[r], crawl_result[r]))
          /\ Return(r)
       \/ /\ Except(r, "log_crawl_result")
          /\ UNCHANGED <<outcomes, outcomeBy>>
    /\ UNCHANGED <<versions, versionBy, world, locals>>

\* Lines 43-48: the content goes to the parser.
ParseCall(r) ==
    /\ pc[r] = "classify"
    /\ ~IsNoChange(crawl_result[r])
    /\ ~IsFailed(crawl_result[r])
    /\ pc' = [pc EXCEPT ![r] = "parsing"]
    /\ hist' = [hist EXCEPT ![r].nParse = @ + 1,
                            ![r].given = crawl_result[r].content]
    /\ UNCHANGED <<store, world, locals>>

\* Line 48: the parser returns, or raises.
ParseReturn(r) ==
    /\ pc[r] = "parsing"
    /\ \/ \E json \in ParseMarkdownToJson(hist[r].given) :
            /\ rewards_json' = [rewards_json EXCEPT ![r] = json]
            /\ pc' = [pc EXCEPT ![r] = "parsed"]
            /\ UNCHANGED hist
       \/ /\ Except(r, "parse_markdown_to_json")
          /\ UNCHANGED rewards_json
    /\ UNCHANGED <<store, world, card_id, last_hash, crawl_result>>

\* Lines 50-53.
LogAiFailed(r) ==
    /\ pc[r] = "parsed"
    /\ HasError(rewards_json[r])
    /\ \/ /\ AppendOutcome(r, AiFailedRow(card_id[r], rewards_json[r]))
          /\ Return(r)
       \/ /\ Except(r, "log_crawl_result")
          /\ UNCHANGED <<outcomes, outcomeBy>>
    /\ UNCHANGED <<versions, versionBy, world, locals>>

\* Lines 55-63 updating the card's latest row where the code inserts one.
SaveVersionOverwrites(r) ==
    /\ pc[r] = "parsed"
    /\ ~HasError(rewards_json[r])
    /\ versions' =
          IF versions = <<>>
          THEN <<VersionRow(card_id[r], crawl_result[r], rewards_json[r])>>
          ELSE [versions EXCEPT ![Len(versions)] =
                    VersionRow(card_id[r], crawl_result[r], rewards_json[r])]
    /\ versionBy' =
          IF versions = <<>> THEN <<r>>
          ELSE [versionBy EXCEPT ![Len(versions)] = r]
    /\ pc' = [pc EXCEPT ![r] = "saved"]
    /\ UNCHANGED <<hist, outcomes, outcomeBy, world, locals>>

\* Lines 55-63 inside a try of their own that swallows the store's failure:
\* the run goes on to line 64 whether or not the version was written.
SaveVersionIgnoresFailure(r) ==
    /\ pc[r] = "parsed"
    /\ ~HasError(rewards_json[r])
    /\ \/ /\ ~CommitConflict(versions, card_id[r], crawl_result[r].hash)
          /\ versions' = Append(versions,
                VersionRow(card_id[r], crawl_result[r], rewards_json[r]))
          /\ versionBy' = Append(versionBy, r)
       \/ UNCHANGED <<versions, versionBy>>
    /\ pc' = [pc EXCEPT ![r] = "saved"]
    /\ UNCHANGED <<hist, outcomes, outcomeBy, world, locals>>

\* Lines 55-63: the version is written, or the store raises (a conflict or
\* any other failure); then nothing was written.
SaveVersion(r) ==
    /\ pc[r] = "parsed"
    /\ ~HasError(rewards_json[r])
    /\ \/ /\ ~CommitConflict(versions, card_id[r], crawl_result[r].hash)
          /\ versions' = Append(versions,
                VersionRow(card_id[r], crawl_result[r], rewards_json[r]))
          /\ versionBy' = Append(versionBy, r)
          /\ pc' = [pc EXCEPT ![r] = "saved"]
          /\ UNCHANGED hist
       \/ /\ Except(r, IF CommitConflict(versions, card_id[r], crawl_result[r].hash)
                       THEN "CommitConflict" ELSE "save_card_version")
          /\ UNCHANGED <<versions, versionBy>>
    /\ UNCHANGED <<outcomes, outcomeBy, world, locals>>

\* Lines 64-65.
LogSuccess(r) ==
    /\ pc[r] = "saved"
    /\ \/ /\ AppendOutcome(r, SuccessRow(card_id[r]))
          /\ Return(r)
       \/ /\ Except(r, "log_crawl_result")
          /\ UNCHANGED <<outcomes, outcomeBy>>
    /\ UNCHANGED <<versions, versionBy, world, locals>>

\* The bank publishes new terms: the remote content changes.
ChangeRemote ==
    /\ changes < MaxChanges
    /\ \E c \in Contents \ {remote} : remote' = c
    /\ changes' = changes + 1
    /\ UNCHANGED <<store, pc, locals, hist>>

Next ==
    \/ \E r \in Runs : Start(r)
    \/ \E r \in Runs : ReadLatest(r)
    \/ \E r \in Runs : FetchCall(r)
    \/ \E r \in Runs : FetchReturn(r)
    \/ \E r \in Runs : Cancel(r)
    \/ \E r \in Runs : LogNoChange(r)
    \/ \E r \in Runs : LogFailed(r)
    \/ \E r \in Runs : ParseCall(r)
    \/ \E r \in Runs : ParseReturn(r)
    \/ \E r \in Runs : LogAiFailed(r)
    \/ \E r \in Runs : SaveVersion(r)
    \/ \E r \in Runs : LogSuccess(r)
    \/ ChangeRemote

Spec == Init /\ [][Next]_vars

\* A step main() takes by itself once invoked: its own statements and the
\* store calls.  The completion of the crawler's and of the parser's call
\* (FetchReturn, ParseReturn) is theirs to make, and main() sets no timeout
\* on either (lines 31 and 48).
OwnStep(r) ==
    \/ ReadLatest(r) \/ FetchCall(r)
    \/ LogNoChange(r) \/ LogFailed(r) \/ ParseCall(r)
    \/ LogAiFailed(r) \/ SaveVersion(r) \/ LogSuccess(r)

\* A started main() keeps executing its own steps.
FairSpec == Spec /\ \A r \in Runs : WF_vars(OwnStep(r))

\* ------------------------------------------------- what the claims speak of

Done(r) == pc[r] = "done"

\* No run is in progress.
Quiescent == \A r \in Runs : ~InFlight(r)

\* The crawl log rows run r appended, and the version rows it created.
OutcomesOf(r) == {i \in 1..Len(outcomes) : outcomeBy[i] = r}
VersionsOf(r) == {i \in 1..Len(versions) : versionBy[i] = r}

\* The rows of one card.
OutcomesFor(cid) == {i \in 1..Len(outcomes) : outcomes[i].card_id = cid}
VersionsFor(cid) == {i \in 1..Len(versions) : versions[i].card_id = cid}
SuccessesFor(cid) == {i \in OutcomesFor(cid) : outcomes[i].status = "SUCCESS"}

\* The runs invoked for a card that have ended.
RunsEndedFor(cid) == {r \in Runs : Done(r) /\ card_id[r] = cid}

\* The calls of the store; an exception of any other call is a failure of the
\* fetcher or of the extractor.
StoreCalls ==
    {"seed", "get_latest_card_version", "log_crawl_result",
     "save_card_version", "CommitConflict"}

\* The fetcher answered CHANGED and the extractor a payload.
ChangedAndParsed(r) ==
    /\ crawl_result[r].status = "CHANGED"
    /\ "rules" \in DOMAIN rewards_json[r]

\* Run r appended a row of this kind.
HasOutcome(r, kind) == \E i \in OutcomesOf(r) : outcomes[i].status = kind

\* r2 was invoked right after r1 had ended, and neither ran beside another.
InSuccession(r1, r2) ==
    /\ r2 = r1 + 1
    /\ Done(r1)
    /\ hist[r1].solo
    /\ hist[r2].solo

\* The fetch of r2 saw the content the fetch of r1 saw.
SameContent(r1, r2) ==
    /\ hist[r2].served # None
    /\ hist[r2].served = hist[r1].served

\* The fetcher compared fingerprints and answered (it did not fail).
Compared(r) == crawl_result[r].status \in {"NO_CHANGE", "CHANGED"}

\* ----------------------------------------------------------------- claims

\* C1: every run appends exactly one CrawlOutcome, whatever a collaborator
\* returns or raises.  Stated for the runs in which the store accepted every
\* call, so that an outcome row could be written: each such ended run has
\* appended exactly one row.
C1_OneOutcomePerRun ==
    \A r \in Runs :
        (Done(r) /\ hist[r].raised \notin StoreCalls)
            => Cardinality(OutcomesOf(r)) = 1

\* C2: when no run is in progress, a card has as many ContentVersions as it has
\* SUCCESS outcomes, also when one of the two writes of the commit fails.
C2_VersionIffSuccess ==
    Quiescent =>
        Cardinality(VersionsFor(CardId)) = Cardinality(SuccessesFor(CardId))

\* C3: two runs that read the same latest fingerprint and both get CHANGED and
\* a payload: exactly one creates a version, the other gets CommitConflict and
\* records one outcome that is not SUCCESS.  Stated for pairs in which the
\* store raised nothing but the conflict.
C3_OneCommitPerStaleFingerprint ==
    \A r1, r2 \in Runs :
        ( /\ r1 # r2
          /\ Done(r1) /\ Done(r2)
          /\ hist[r1].latestAtRead = hist[r2].latestAtRead
          /\ ChangedAndParsed(r1) /\ ChangedAndParsed(r2)
          /\ hist[r1].raised \in {None, "CommitConflict"}
          /\ hist[r2].raised \in {None, "CommitConflict"} )
        => \E w, l \in {r1, r2} :
              /\ w # l
              /\ Cardinality(VersionsOf(w)) = 1
              /\ VersionsOf(l) = {}
              /\ hist[l].raised = "CommitConflict"
              /\ Cardinality(OutcomesOf(l)) = 1
              /\ \A i \in OutcomesOf(l) : outcomes[i].status # "SUCCESS"
\* C4 as stated: of two runs in succession on unchanged content, the first
\* SUCCESS, the second ends with the outcome NO_CHANGE.  Stated for second
\* runs in which no call raised.
C4_SecondRunIsNoChange ==
    \A r1, r2 \in Runs :
        ( /\ InSuccession(r1, r2)
          /\ HasOutcome(r1, "SUCCESS")
          /\ SameContent(r1, r2)
          /\ Done(r2) /\ hist[r2].raised = None )
        => /\ Cardinality(OutcomesOf(r2)) = 1
           /\ HasOutcome(r2, "NO_CHANGE")

\* C4 amended: of two runs in succession on unchanged content, the first
\* SUCCESS, the second never creates a version and never records SUCCESS or
\* AI_FAILED; its fetch answers NO_CHANGE or fails, and it records NO_CHANGE
\* when the fetcher answered and the log write was accepted, FAILED when the
\* fetch failed.
C4_SecondRunNeverSucceeds ==
    \A r1, r2 \in Runs :
        ( /\ InSuccession(r1, r2)
          /\ HasOutcome(r1, "SUCCESS")
          /\ SameContent(r1, r2) )
        => /\ crawl_result[r2].status \in {"NO_CHANGE", "FAILED"}
           /\ VersionsOf(r2) = {}
           /\ \A i \in OutcomesOf(r2) :
                 outcomes[i].status =
                    IF crawl_result[r2].status = "NO_CHANGE"
                    THEN "NO_CHANGE" ELSE "FAILED"
           /\ (Done(r2) /\ hist[r2].raised = None)
                 => Cardinality(OutcomesOf(r2)) = 1

C4_Witness ==
    \E r1, r2 \in Runs :
        /\ InSuccession(r1, r2)
        /\ HasOutcome(r1, "SUCCESS")
        /\ SameContent(r1, r2)
        /\ Done(r2)
        /\ HasOutcome(r2, "NO_CHANGE")

\* C5: a run is classified NO_CHANGE exactly when the fingerprint of the
\* content its fetch saw equals the fingerprint of the latest version it read
\* at its start: the fetcher's answer is NO_CHANGE exactly then, a NO_CHANGE
\* row is appended only then, an AI_FAILED or SUCCESS row or a version only
\* when the two differ; so never NO_CHANGE for a card without a version.
C5_NoChangeIffEqualFingerprint ==
    \A r \in Runs :
        /\ Compared(r) =>
              ( crawl_result[r].status = "NO_CHANGE"
                  <=> Fingerprint(hist[r].served) = hist[r].latestAtRead )
        /\ \A i \in OutcomesOf(r) :
              /\ outcomes[i].status = "NO_CHANGE" =>
                    /\ Compared(r)
                    /\ hist[r].latestAtRead # None
                    /\ Fingerprint(hist[r].served) = hist[r].latestAtRead
              /\ outcomes[i].status \in {"AI_FAILED", "SUCCESS"} =>
                    /\ Compared(r)
                    /\ Fingerprint(hist[r].served) # hist[r].latestAtRead
        /\ VersionsOf(r) # {} =>
              /\ Compared(r)
              /\ Fingerprint(hist[r].served) # hist[r].latestAtRead
        /\ ( /\ Done(r) /\ hist[r].raised = None /\ Compared(r)
             /\ Fingerprint(hist[r].served) = hist[r].latestAtRead )
           => HasOutcome(r, "NO_CHANGE")

C5_Witness ==
    \E r \in Runs :
        /\ Done(r)
        /\ HasOutcome(r, "NO_CHANGE")
        /\ Fingerprint(hist[r].served) = hist[r].latestAtRead

\* C6: every failure of the fetcher or of the extractor, reported or raised,
\* becomes a logged outcome of the matching kind (FAILED, AI_FAILED).  Stated
\* for the runs in which the store accepted every call.
C6_FailuresBecomeOutcomes ==
    \A r \in Runs :
        (Done(r) /\ hist[r].raised \notin StoreCalls) =>
            /\ ( crawl_result[r].status = "FAILED"
                 \/ hist[r].raised = "process_card_url" )
               => HasOutcome(r, "FAILED")
            /\ ( "error" \in DOMAIN rewards_json[r]
                 \/ hist[r].raised = "parse_markdown_to_json" )
               => HasOutcome(r, "AI_FAILED")
\* The one version of Scenario A: fingerprint F, payload P, raw content C.
CreatedItsVersion(r) ==
    /\ Cardinality(VersionsOf(r)) = 1
    /\ \A i \in VersionsOf(r) :
          /\ versions[i].card_id = CardId
          /\ versions[i].source_content_hash = crawl_result[r].hash
          /\ versions[i].source_content_hash = Fingerprint(hist[r].served)
          /\ versions[i].rewards = rewards_json[r]
          /\ versions[i].raw_content = crawl_result[r].content
          /\ versions[i].raw_content = hist[r].served

\* Run r appended exactly one row, of this kind and with this detail.
OnlyOutcome(r, kind, detail) ==
    /\ Cardinality(OutcomesOf(r)) = 1
    /\ \A i \in OutcomesOf(r) :
          outcomes[i] = [card_id |-> CardId, status |-> kind, error |-> detail]

\* A run on a card without a version, CHANGED from the fetcher, a payload
\* from the extractor.
ScenarioA(r) ==
    /\ Done(r)
    /\ hist[r].latestAtRead = None
    /\ ChangedAndParsed(r)

UnchangedRun(r) == Done(r) /\ crawl_result[r].status = "NO_CHANGE"

\* Run r created no version; alone on the store, it left the rows as found.
CreatedNoVersion(r) ==
    /\ VersionsOf(r) = {}
    /\ hist[r].solo => hist[r].after = hist[r].before

FetchFailedRun(r) == Done(r) /\ crawl_result[r].status = "FAILED"

ExtractionFailedRun(r) ==
    /\ Done(r)
    /\ crawl_result[r].status = "CHANGED"
    /\ "error" \in DOMAIN rewards_json[r]

\* No row run r wrote holds the content it fetched.
ContentNotPersisted(r) ==
    /\ \A i \in VersionsOf(r) : versions[i].raw_content # crawl_result[r].content
    /\ \A i \in OutcomesOf(r) : outcomes[i].error # crawl_result[r].content

IsPrefix(s, t) ==
    /\ Len(s) <= Len(t)
    /\ \A i \in 1..Len(s) : s[i] = t[i]

\* C11: versions and outcomes are append-only: every step leaves each
\* existing ContentVersion and CrawlOutcome in place and unchanged, adds at
\* most one row to each, and no run ever has more than one version or more
\* than one outcome to its name.
C11_AppendOnly ==
    [][ /\ IsPrefix(versions, versions')
        /\ IsPrefix(outcomes, outcomes')
        /\ IsPrefix(versionBy, versionBy')
        /\ IsPrefix(outcomeBy, outcomeBy')
        /\ Len(versions') <= Len(versions) + 1
        /\ Len(outcomes') <= Len(outcomes) + 1
        /\ \A r \in Runs :
              /\ Cardinality({i \in 1..Len(versions') : versionBy'[i] = r}) <= 1
              /\ Cardinality({i \in 1..Len(outcomes') : outcomeBy'[i] = r}) <= 1
      ]_vars

\* A second run has added its version and its outcome behind the first run's.
C11_Witness ==
    /\ Len(versions) = 2
    /\ Len(outcomes) = 2
    /\ versionBy = <<1, 2>>
    /\ outcomeBy = <<1, 2>>
\* The fetch of run r ended by the fetcher's timeout; the extraction did.
FetchTimedOut(r) ==
    /\ crawl_result[r].status = "FAILED"
    /\ crawl_result[r].error = "timeout"

ParseTimedOut(r) ==
    /\ "error" \in DOMAIN rewards_json[r]
    /\ rewards_json[r] = [error |-> "timeout"]

\* Run r has ended on the branch of `kind` with the detail "timeout": no
\* version, and its one outcome row says so (no row if the log write raised).
EndedClassified(r, kind) ==
    /\ Done(r)
    /\ VersionsOf(r) = {}
    /\ hist[r].nFetch = 1
    /\ hist[r].raised \in {None, "log_crawl_result"}
    /\ hist[r].raised = None => OnlyOutcome(r, kind, "timeout")
    /\ hist[r].raised # None => OutcomesOf(r) = {}

\* C12: a run never hangs on a collaborator: a run waiting for the fetcher
\* or for the extractor always comes to its end, also when the collaborator
\* never answers, and a call ended by timeout ends the run classified FAILED
\* (fetcher, and the extractor is never called) or AI_FAILED (extractor)
\* with the detail "timeout".
C12_NeverHangs ==
    \A r \in Runs :
        /\ (pc[r] = "fetching") ~> Done(r)
        /\ (pc[r] = "parsing") ~> Done(r)
        /\ FetchTimedOut(r)
              ~> (EndedClassified(r, "FAILED") /\ hist[r].nParse = 0)
        /\ ParseTimedOut(r) ~> EndedClassified(r, "AI_FAILED")
\* Run r was cancelled.
Cancelled(r) == hist[r].propagated = "CancelledError"

\* C13: a run cancelled at a point where it can be cancelled leaves no
\* ContentVersion of its own without a CrawlOutcome of its own; it has
\* ended, and with the fetch pending it had written nothing.
C13_CancelLeavesNoOrphanVersion ==
    \A r \in Runs :
        Cancelled(r) =>
            /\ Done(r)
            /\ VersionsOf(r) # {} => OutcomesOf(r) # {}

\* A run was cancelled while its fetch was pending, beside a card that has
\* a version.
C13_Witness ==
    \E r \in Runs :
        /\ Cancelled(r)
        /\ hist[r].nFetch = 1
        /\ crawl_result[r] = NoResult
        /\ versions # <<>>
\* C14: when the store rejects the save with CommitConflict, the run has
\* created no version and the conflict leaves main() to its caller.
C14_CommitConflictSurfaced ==
    \A r \in Runs :
        hist[r].raised = "CommitConflict" =>
            /\ VersionsOf(r) = {}
            /\ hist[r].propagated = "CommitConflict"
\* C15: a run calls the fetcher at most once and the extractor at most
\* once, whatever they return or raise.
C15_NoRetry ==
    \A r \in Runs :
        /\ hist[r].nFetch <= 1
        /\ hist[r].nParse <= 1

\* One run ended on a failed fetch and another on a failed extraction
\* (returned or raised), each after a single call.
C15_Witness ==
    \E r, q \in Runs :
        /\ FetchFailedRun(r) \/ (Done(r) /\ hist[r].raised = "process_card_url")
        /\ hist[r].nFetch = 1
        /\ ExtractionFailedRun(q) \/ (Done(q) /\ hist[q].raised = "parse_markdown_to_json")
        /\ hist[q].nParse = 1
\* C16: the extractor is called only after the run's fetch answered CHANGED,
\* with exactly the content that fetch returned; a version is created only
\* after the extractor returned a payload, and holds that payload.
C16_StageOrdering ==
    \A r \in Runs :
        /\ hist[r].nParse > 0 =>
              /\ hist[r].nFetch = 1
              /\ crawl_result[r].status = "CHANGED"
              /\ hist[r].given = crawl_result[r].content
              /\ hist[r].given = hist[r].served
        /\ \A i \in VersionsOf(r) :
              /\ hist[r].nParse = 1
              /\ "rules" \in DOMAIN rewards_json[r]
              /\ versions[i].rewards = rewards_json[r]
              /\ versions[i].raw_content = hist[r].given

\* A run went through every stage on changed content: fetch, extraction
\* of that content, commit.
C16_Witness ==
    \E r \in Runs :
        /\ Done(r)
        /\ hist[r].hadVersion
        /\ hist[r].given = "C1"
        /\ VersionsOf(r) # {}
        /\ HasOutcome(r, "SUCCESS")
\* C17: a run that has appended its crawl log row has ended; from then on
\* it makes no collaborator call and writes no row, so the row is its last
\* side effect.
C17_OutcomeIsTerminal ==
    [][ \A r \in Runs :
            OutcomesOf(r) # {} =>
                /\ Done(r)
                /\ pc'[r] = "done"
                /\ hist'[r] = hist[r]
                /\ {i \in 1..Len(versions') : versionBy'[i] = r} = VersionsOf(r)
                /\ {i \in 1..Len(outcomes') : outcomeBy'[i] = r} = OutcomesOf(r)
      ]_vars

\* A run ended on its SUCCESS row, and a run with its row written stayed
\* ended while another run was between its two store writes.
C17_Witness ==
    /\ \E r \in Runs : HasOutcome(r, "SUCCESS") /\ Done(r)
    /\ \E r \in Runs : OutcomesOf(r) # {} /\ \E q \in Runs : q # r /\ pc[q] = "saved"
\* C18: the last-known fingerprint a run hands to the fetcher is the
\* fingerprint of the card's latest version as the store held it when the
\* run read it, and is absent exactly when the card had no version then.
C18_LastKnownFingerprint ==
    \A r \in Runs :
        hist[r].nFetch >= 1 =>
            /\ last_hash[r] = hist[r].latestAtRead
            /\ last_hash[r] = None <=> ~hist[r].hadVersion
            /\ hist[r].hadVersion => \E c \in Contents : last_hash[r] = Fingerprint(c)

\* One run called the fetcher with no fingerprint and another with the
\* fingerprint of a stored version.
C18_Witness ==
    \E r, q \in Runs :
        /\ hist[r].nFetch = 1 /\ last_hash[r] = None
        /\ hist[q].nFetch = 1 /\ last_hash[q] # None /\ hist[q].hadVersion
\* C19: the card never has more SUCCESS rows than versions, and a run has
\* a SUCCESS row only if it created its version, also when a store write
\* raised.
C19_SuccessOnlyAfterVersion ==
    /\ Cardinality(SuccessesFor(CardId)) <= Cardinality(VersionsFor(CardId))
    /\ \A r \in Runs :
          HasOutcome(r, "SUCCESS") =>
              /\ VersionsOf(r) # {}
              /\ hist[r].raised = None

\* A store write raised after a commit: one run wrote its version and its
\* SUCCESS row failed, while another run committed both.
C19_Witness ==
    /\ \E r \in Runs : hist[r].raised = "log_crawl_result" /\ VersionsOf(r) # {}
    /\ \E r \in Runs : HasOutcome(r, "SUCCESS")
    /\ Cardinality(SuccessesFor(CardId)) < Cardinality(VersionsFor(CardId))

====
